---- MODULE Spec2Model ----
(***************************************************************************)
(* A model of orm.py: ClassFactory (closed, typed records), NoneSafeType,  *)
(* ORMBase.save and the ORM class (schema validation, sync, record         *)
(* creation, fetch, insert, update) over one SQLite table.                 *)
(***************************************************************************)
EXTENDS Integers, Sequences, FiniteSets, TLC

(***************************************************************************)
(* Python values.  Every value is a pair <<type tag, payload>>.  A string  *)
(* is the sequence of its characters; a float is kept in tenths            *)
(* (<<"float", 75>> is 7.5).  Numbers are non-negative.                    *)
(***************************************************************************)
None == <<"NoneType", 0>>
PyInt(n) == <<"int", n>>
PyFloat(tenths) == <<"float", tenths>>
PyBool(b) == <<"bool", b>>
PyStr(s) == <<"str", s>>
PyUnicode(s) == <<"unicode", s>>
Raise(exc) == <<"raise", exc>>
IsRaise(v) == v[1] = "raise"
TypeOf(v) == v[1]
Val(v) == v[2]
IsText(v) == TypeOf(v) \in {"str", "unicode"}

\* An attribute a Record does not carry (hasattr is False, absent from dir()).
Absent == <<"absent", 0>>

Digits == {ToString(d) : d \in 0..9}
DigitVal(c) == CHOOSE d \in 0..9 : ToString(d) = c
IsDigits(s) == Len(s) > 0 /\ \A i \in 1..Len(s) : s[i] \in Digits

RECURSIVE ParseDigits(_)
ParseDigits(s) ==
    IF s = <<>> THEN 0
    ELSE 10 * ParseDigits(SubSeq(s, 1, Len(s) - 1)) + DigitVal(s[Len(s)])

RECURSIVE RenderNat(_)
RenderNat(n) ==
    IF n < 10 THEN <<ToString(n)>>
    ELSE RenderNat(n \div 10) \o <<ToString(n % 10)>>

\* digits "." digit : the real literals the model's strings can spell.
IsRealLit(s) ==
    /\ Len(s) >= 3
    /\ s[Len(s) - 1] = "."
    /\ s[Len(s)] \in Digits
    /\ IsDigits(SubSeq(s, 1, Len(s) - 2))
ParseTenths(s) ==
    IF IsDigits(s) THEN 10 * ParseDigits(s)
    ELSE 10 * ParseDigits(SubSeq(s, 1, Len(s) - 2)) + DigitVal(s[Len(s)])

\* The scalar constructors int(v), float(v), bool(v), str(v) of Python 2.
py_int(v) ==
    CASE TypeOf(v) = "int" -> v
      [] TypeOf(v) = "bool" -> PyInt(IF Val(v) THEN 1 ELSE 0)
      [] TypeOf(v) = "float" -> PyInt(Val(v) \div 10)
      [] IsText(v) -> IF IsDigits(Val(v)) THEN PyInt(ParseDigits(Val(v)))
                      ELSE Raise("ValueError")
      [] OTHER -> Raise("TypeError")
py_float(v) ==
    CASE TypeOf(v) = "int" -> PyFloat(10 * Val(v))
      [] TypeOf(v) = "bool" -> PyFloat(IF Val(v) THEN 10 ELSE 0)
      [] TypeOf(v) = "float" -> v
      [] IsText(v) -> IF IsDigits(Val(v)) \/ IsRealLit(Val(v))
                      THEN PyFloat(ParseTenths(Val(v)))
                      ELSE Raise("ValueError")
      [] OTHER -> Raise("TypeError")
py_bool(v) ==
    CASE TypeOf(v) = "int" -> PyBool(Val(v) # 0)
      [] TypeOf(v) = "bool" -> v
      [] TypeOf(v) = "float" -> PyBool(Val(v) # 0)
      [] IsText(v) -> PyBool(Val(v) # <<>>)
      [] OTHER -> PyBool(FALSE)
py_str(v) ==
    CASE TypeOf(v) = "int" -> PyStr(RenderNat(Val(v)))
      [] TypeOf(v) = "bool" -> PyStr(IF Val(v) THEN <<"T", "r", "u", "e">>
                                     ELSE <<"F", "a", "l", "s", "e">>)
      [] TypeOf(v) = "float" ->
             PyStr(RenderNat(Val(v) \div 10) \o <<".">> \o RenderNat(Val(v) % 10))
      [] IsText(v) -> PyStr(Val(v))
      [] OTHER -> PyStr(<<"N", "o", "n", "e">>)

\* _type(value) for the four column types.
TypeCall(type, v) ==
    CASE type = "int" -> py_int(v)
      [] type = "float" -> py_float(v)
      [] type = "bool" -> py_bool(v)
      [] type = "str" -> py_str(v)

\* A caster that forgets the None test: None goes through _type.
NoneSafeTypeUnguarded(type, v) == TypeCall(type, v)

\* NoneSafeType(_type)(value)
NoneSafeType(type, v) == IF v = None THEN None ELSE TypeCall(type, v)

\* a == b of Python 2 on the model's values: numbers compare by value across
\* int, bool and float; str and unicode compare by characters; a number never
\* equals a string; None equals only None.
NumTenths(v) ==
    CASE TypeOf(v) = "int" -> 10 * Val(v)
      [] TypeOf(v) = "bool" -> IF Val(v) THEN 10 ELSE 0
      [] TypeOf(v) = "float" -> Val(v)
IsNum(v) == TypeOf(v) \in {"int", "bool", "float"}
PyEq(a, b) ==
    \/ IsNum(a) /\ IsNum(b) /\ NumTenths(a) = NumTenths(b)
    \/ IsText(a) /\ IsText(b) /\ Val(a) = Val(b)
    \/ a = None /\ b = None

(***************************************************************************)
(* The SQLite side of execute_query: values as the engine stores them,     *)
(* <<storage class, payload>>, the affinity a declared column type gets,   *)
(* and the conversions at the sqlite3 module's boundary.                   *)
(***************************************************************************)
SqlNull == <<"NULL", 0>>
SqlInteger(n) == <<"INTEGER", n>>
SqlReal(tenths) == <<"REAL", tenths>>
SqlText(s) == <<"TEXT", s>>

\* Python parameter -> bound SQLite value (bool is an int to sqlite3).
Adapt(v) ==
    CASE v = None -> SqlNull
      [] TypeOf(v) = "int" -> SqlInteger(Val(v))
      [] TypeOf(v) = "bool" -> SqlInteger(IF Val(v) THEN 1 ELSE 0)
      [] TypeOf(v) = "float" -> SqlReal(Val(v))
      [] IsText(v) -> SqlText(Val(v))

\* Column affinity of the four type names the ORM writes: a name holding
\* "INT" is INTEGER, "REAL" is REAL, anything else here is NUMERIC (neither
\* BOOLEAN nor STRING holds CHAR, CLOB or TEXT).
Affinity(sql_type) ==
    CASE sql_type = "INTEGER" -> "INTEGER"
      [] sql_type = "REAL" -> "REAL"
      [] OTHER -> "NUMERIC"

\* What a column of the given affinity keeps of a bound value.
ApplyAffinity(aff, sv) ==
    LET num == IF sv[1] = "TEXT" /\ IsDigits(sv[2]) THEN SqlInteger(ParseDigits(sv[2]))
               ELSE IF sv[1] = "TEXT" /\ IsRealLit(sv[2]) THEN SqlReal(ParseTenths(sv[2]))
               ELSE sv
    IN  IF aff = "REAL"
        THEN IF num[1] = "INTEGER" THEN SqlReal(10 * num[2]) ELSE num
        ELSE IF num[1] = "REAL" /\ num[2] % 10 = 0 THEN SqlInteger(num[2] \div 10)
             ELSE num

\* Stored value -> Python value of a fetched sqlite3.Row (text is unicode).
FromSql(sv) ==
    CASE sv[1] = "NULL" -> None
      [] sv[1] = "INTEGER" -> PyInt(sv[2])
      [] sv[1] = "REAL" -> PyFloat(sv[2])
      [] sv[1] = "TEXT" -> PyUnicode(sv[2])

\* The value a column's DEFAULT clause gives a row that does not set it:
\* dflt is the clause's text as PRAGMA table_info reports it, or None.
DefaultValue(sql_type, dflt) ==
    IF dflt = None THEN SqlNull
    ELSE ApplyAffinity(Affinity(sql_type), SqlText(Val(dflt)))

(***************************************************************************)
(* class ORMBase / class ORM: names and tables fixed by the code.          *)
(***************************************************************************)
id_key_name == "__id"

\* The names ClassFactory is told to store verbatim (orm.py line 131).
exceptions == {"_ORMBase__orm", "_ORM__id"}

KnownTypes == {"int", "float", "bool", "str"}
known_column_types(type) ==
    CASE type = "int" -> "INTEGER"
      [] type = "float" -> "REAL"
      [] type = "bool" -> "BOOLEAN"
      [] type = "str" -> "STRING"

\* A live column as PRAGMA table_info reports it and sync reads it.
LiveColumn(name, sql_type, dflt) == [column_name |-> name, column_type |-> sql_type, default_value |-> dflt]
IdLiveColumn == LiveColumn(id_key_name, "INTEGER", None)

\* An entry of self.columns; default is Absent when the definition has no
\* "default" key.
Column(name, type, default) == [name |-> name, type |-> type, default |-> default]
IdColumn == Column(id_key_name, "int", Absent)

\* column_definition.get("default", None)
GetDefault(col) == IF col.default = Absent THEN None ELSE col.default

Names(seq) == {seq[i].name : i \in 1..Len(seq)}
LiveNames(live) == {live[i].column_name : i \in 1..Len(live)}

\* "DEFAULT %s" % (default,) as the engine records it: the text of str(default).
RenderDefault(default) ==
    IF default = None THEN None ELSE PyUnicode(Val(py_str(default)))

(***************************************************************************)
(* ORM.sync: reconcile self.columns with the live table.                   *)
(* A statement of the log is a tuple that starts with its kind.            *)
(***************************************************************************)
ColumnNamed(columns, name) ==
    columns[CHOOSE i \in 1..Len(columns) : columns[i].name = name]

\* A conflict loop that treats a live column the schema does not name as a
\* conflict.
RECURSIVE ConflictLoopStrict(_, _, _)
ConflictLoopStrict(live, columns, i) ==
    IF i > Len(live) THEN "ok"
    ELSE LET db == live[i]
         IN  IF db.column_name \notin Names(columns)
             THEN "TypeError"
             ELSE LET col == ColumnNamed(columns, db.column_name)
                  IN  IF db.column_type # known_column_types(col.type)
                      THEN "TypeError"
                      ELSE IF ~PyEq(db.default_value, GetDefault(col))
                           THEN "TypeError"
                           ELSE ConflictLoopStrict(live, columns, i + 1)

\* Lines 174-189: the first live column that disagrees with the schema
\* raises TypeError; a live column the schema does not name is skipped.
\* The live type is compared as row[2].upper(): the live types here were
\* written from known_column_types and are upper case already.
RECURSIVE ConflictLoop(_, _, _)
ConflictLoop(live, columns, i) ==
    IF i > Len(live) THEN "ok"
    ELSE LET db == live[i]
         IN  IF db.column_name \notin Names(columns)
             THEN ConflictLoop(live, columns, i + 1)
             ELSE LET col == ColumnNamed(columns, db.column_name)
                  IN  IF db.column_type # known_column_types(col.type)
                      THEN "TypeError"
                      ELSE IF ~PyEq(db.default_value, GetDefault(col))
                           THEN "TypeError"
                           ELSE ConflictLoop(live, columns, i + 1)

\* Lines 192-202: one ALTER TABLE ADD COLUMN per entry of self.columns the
\* live table does not name, in the order of self.columns.
RECURSIVE AddLoop(_, _, _)
AddLoop(live, columns, i) ==
    IF i > Len(columns) THEN <<>>
    ELSE LET col == columns[i]
             rest == AddLoop(live, columns, i + 1)
         IN  IF col.name \in LiveNames(live) THEN rest
             ELSE <<LiveColumn(col.name, known_column_types(col.type),
                               RenderDefault(GetDefault(col)))>> \o rest

\* Lines 204-212: the chunks of the CREATE statement, __id left out.
RECURSIVE CreateChunks(_, _)
CreateChunks(columns, i) ==
    IF i > Len(columns) THEN <<>>
    ELSE LET col == columns[i]
             rest == CreateChunks(columns, i + 1)
         IN  IF col.name = id_key_name THEN rest
             ELSE <<LiveColumn(col.name, known_column_types(col.type),
                               RenderDefault(GetDefault(col)))>> \o rest

AlterStatements(added) == [i \in 1..Len(added) |-> <<"ALTER", added[i]>>]

\* The outcome of sync(): result, the statements executed, the table after.
SyncOutcome(result, statements, exists, live) ==
    [result |-> result, statements |-> statements, exists |-> exists, live |-> live]

\* sync() that adds the missing columns before it looks for conflicts.
syncAddFirst(exists, live, columns) ==
    IF exists
    THEN LET added == AddLoop(live, columns, 1)
             verdict == ConflictLoop(live, columns, 1)
         IN  SyncOutcome(verdict,
                         <<(<<"CATALOG">>), (<<"PRAGMA">>)>> \o AlterStatements(added),
                         TRUE, live \o added)
    ELSE SyncOutcome("ok", <<(<<"CATALOG">>), (<<"CREATE", CreateChunks(columns, 1)>>)>>,
                     TRUE, <<IdLiveColumn>> \o CreateChunks(columns, 1))

\* sync() that looks for conflicts on the first declared column only.
syncFirstOnly(exists, live, columns) ==
    IF exists
    THEN LET verdict == ConflictLoop(live, SubSeq(columns, 1, IF Len(columns) < 2 THEN Len(columns) ELSE 2), 1)
             added == AddLoop(live, columns, 1)
         IN  IF verdict # "ok"
             THEN SyncOutcome(verdict, <<(<<"CATALOG">>), (<<"PRAGMA">>)>>, TRUE, live)
             ELSE SyncOutcome("ok",
                              <<(<<"CATALOG">>), (<<"PRAGMA">>)>> \o AlterStatements(added),
                              TRUE, live \o added)
    ELSE LET chunks == CreateChunks(columns, 1)
         IN  IF chunks = <<>>
             THEN SyncOutcome("OperationalError", <<(<<"CATALOG">>)>>, FALSE, live)
             ELSE SyncOutcome("ok", <<(<<"CATALOG">>), (<<"CREATE", chunks>>)>>,
                              TRUE, <<IdLiveColumn>> \o chunks)

\* sync(), lines 155-220.
sync(exists, live, columns) ==
    IF exists
    THEN LET verdict == ConflictLoop(live, columns, 1)
             added == AddLoop(live, columns, 1)
         IN  IF verdict # "ok"
             THEN SyncOutcome(verdict, <<(<<"CATALOG">>), (<<"PRAGMA">>)>>, TRUE, live)
             ELSE SyncOutcome("ok",
                              <<(<<"CATALOG">>), (<<"PRAGMA">>)>> \o AlterStatements(added),
                              TRUE, live \o added)
    ELSE LET chunks == CreateChunks(columns, 1)
         IN  IF chunks = <<>>
             \* "CREATE TABLE t (__id INTEGER PRIMARY KEY AUTOINCREMENT, )" is
             \* a syntax error: sqlite3.OperationalError, nothing is created.
             THEN SyncOutcome("OperationalError", <<(<<"CATALOG">>)>>, FALSE, live)
             ELSE SyncOutcome("ok", <<(<<"CATALOG">>), (<<"CREATE", chunks>>)>>,
                              TRUE, <<IdLiveColumn>> \o chunks)

(***************************************************************************)
(* ORM.__init__: validation of the declared schema, then sync().           *)
(* A declared column definition is [name, form, type, default]: form is    *)
(* "dict" (long form), "type" (short form) or "other" (neither a dict nor  *)
(* a type, e.g. the string "int"); type is one of KnownTypes, "list" (a    *)
(* type the ORM does not know) or "missing" (a dict without "type").       *)
(***************************************************************************)
Definition(name, form, type, default) ==
    [name |-> name, form |-> form, type |-> type, default |-> default]

InitOutcome(result, columns, casters) ==
    [result |-> result, columns |-> columns, casters |-> casters]

\* Lines 108-126.  column_type is the loop's local variable: "unbound"
\* until a branch assigns it, and kept from the previous iteration when no
\* branch runs.
RECURSIVE InitLoop(_, _, _, _, _)
InitLoop(defs, i, columns, casters, column_type) ==
    IF i > Len(defs) THEN InitOutcome("ok", columns, casters)
    ELSE LET d == defs[i]
         IN  CASE d.form = "dict" ->
                    IF d.type = "missing" THEN InitOutcome("TypeError", columns, casters)
                    ELSE IF d.type \notin KnownTypes
                         THEN InitOutcome("TypeError", columns, casters)
                         ELSE InitLoop(defs, i + 1,
                                       Append(columns, Column(d.name, d.type, d.default)),
                                       (d.name :> d.type) @@ casters, d.type)
               [] d.form = "type" ->
                    IF d.type \notin KnownTypes
                    THEN InitOutcome("TypeError", columns, casters)
                    ELSE InitLoop(defs, i + 1,
                                  Append(columns, Column(d.name, d.type, Absent)),
                                  (d.name :> d.type) @@ casters, d.type)
               [] OTHER ->
                    IF column_type = "unbound"
                    THEN InitOutcome("UnboundLocalError", columns, casters)
                    ELSE InitLoop(defs, i + 1, columns,
                                  (d.name :> column_type) @@ casters, column_type)

\* What the constructor leaves: its result, the statements it executed,
\* the table, and self.columns / argument_typecasters of the new store.
Constructed(result, statements, exists, live, columns, casters) ==
    [result |-> result, statements |-> statements, exists |-> exists,
     live |-> live, columns |-> columns, casters |-> casters]

\* ORM.__init__, lines 95-133 (the schema carries its table name and a dict
\* of columns, so the tests of lines 96-99 pass).
ORM_init(exists, live, schema) ==
    IF id_key_name \in Names(schema)
    THEN Constructed("TypeError", <<>>, exists, live, <<>>, <<>>)
    ELSE LET v == InitLoop(schema, 1, <<IdColumn>>, (id_key_name :> "int"), "unbound")
             out == sync(exists, live, v.columns)
         IN  IF v.result # "ok"
             THEN Constructed(v.result, <<>>, exists, live, <<>>, <<>>)
             ELSE Constructed(out.result, out.statements, out.exists, out.live,
                              v.columns, v.casters)

(***************************************************************************)
(* ClassFactory: the mapped object's attributes are a function from the    *)
(* names the object carries to their values.                               *)
(***************************************************************************)
OrmRef == <<"ORM", 0>>

SetResult(ok, exc, attrs) == [ok |-> ok, exc |-> exc, attrs |-> attrs]

Put(attrs, key, value) == (key :> value) @@ attrs

\* A __setattr__ that stores any name it has no typecaster for.
setattr_open(casters, attrs, key, value) ==
    IF key \in exceptions \/ key \notin DOMAIN casters
    THEN SetResult(TRUE, "", Put(attrs, key, value))
    ELSE LET cast == NoneSafeType(casters[key], value)
         IN  IF IsRaise(cast) THEN SetResult(FALSE, cast[2], attrs)
             ELSE SetResult(TRUE, "", Put(attrs, key, cast))

\* __setattr__, lines 26-33.
setattr(casters, attrs, key, value) ==
    IF key \in exceptions
    THEN SetResult(TRUE, "", Put(attrs, key, value))
    ELSE IF key \notin DOMAIN casters
         THEN SetResult(FALSE, "TypeError", attrs)
         ELSE LET cast == NoneSafeType(casters[key], value)
              IN  IF IsRaise(cast) THEN SetResult(FALSE, cast[2], attrs)
                  ELSE SetResult(TRUE, "", Put(attrs, key, cast))

\* __init__, lines 22-25: setattr for every keyword, then ORMBase.__init__
\* stores the owner under its mangled name.  The first failing setattr ends
\* the construction.
RECURSIVE SetAll(_, _, _)
SetAll(casters, attrs, kwargs) ==
    IF DOMAIN kwargs = {} THEN SetResult(TRUE, "", attrs)
    ELSE LET key == CHOOSE k \in DOMAIN kwargs : TRUE
             one == setattr(casters, attrs, key, kwargs[key])
             rest == [k \in DOMAIN kwargs \ {key} |-> kwargs[k]]
         IN  IF ~one.ok THEN one ELSE SetAll(casters, one.attrs, rest)

mapped_object(casters, kwargs) ==
    LET set == SetAll(casters, <<>>, kwargs)
    IN  IF ~set.ok THEN set
        ELSE setattr(casters, set.attrs, "_ORMBase__orm", OrmRef)

\* A __call__ that fills every column left out with None.
RECURSIVE FillDefaultsNone(_, _, _)
FillDefaultsNone(columns, i, kwargs) ==
    IF i > Len(columns) THEN kwargs
    ELSE LET col == columns[i]
         IN  IF col.name = id_key_name \/ col.name \in DOMAIN kwargs
             THEN FillDefaultsNone(columns, i + 1, kwargs)
             ELSE FillDefaultsNone(columns, i + 1, Put(kwargs, col.name, None))

\* Lines 136-143: the keywords after the defaults are filled in.
RECURSIVE FillDefaults(_, _, _)
FillDefaults(columns, i, kwargs) ==
    IF i > Len(columns) THEN kwargs
    ELSE LET col == columns[i]
         IN  IF col.name = id_key_name \/ col.name \in DOMAIN kwargs
             THEN FillDefaults(columns, i + 1, kwargs)
             ELSE FillDefaults(columns, i + 1, Put(kwargs, col.name, GetDefault(col)))

\* ORM.__call__, lines 135-144.
ORM_call(columns, casters, kwargs) ==
    mapped_object(casters, FillDefaults(columns, 1, kwargs))

\* hasattr(obj, name) / name in dir(obj) for the names the model uses.
hasattr(attrs, name) == name \in DOMAIN attrs

(***************************************************************************)
(* The statements the ORM sends through execute_query, on the table's rows.*)
(* A row is a function from the live column names to stored values; rows   *)
(* is the table in rowid order.                                            *)
(***************************************************************************)
LiveNamed(live, name) ==
    live[CHOOSE i \in 1..Len(live) : live[i].column_name = name]

RowId(row) == row[id_key_name][2]

MaxId(rows) ==
    IF rows = <<>> THEN 0
    ELSE CHOOSE m \in {RowId(rows[i]) : i \in 1..Len(rows)} :
             \A i \in 1..Len(rows) : RowId(rows[i]) <= m

\* What column `name` keeps of the Python parameter v.
Stored(live, name, v) ==
    ApplyAffinity(Affinity(LiveNamed(live, name).column_type), Adapt(v))

\* INSERT INTO t (column_names) VALUES (values): the new row.  __id is
\* INTEGER PRIMARY KEY AUTOINCREMENT; a column the statement does not name
\* takes its DEFAULT.
InsertedRow(live, rows, values) ==
    [c \in LiveNames(live) |->
        IF c \in DOMAIN values THEN Stored(live, c, values[c])
        ELSE IF c = id_key_name THEN SqlInteger(MaxId(rows) + 1)
        ELSE DefaultValue(LiveNamed(live, c).column_type,
                          LiveNamed(live, c).default_value)]

\* An UPDATE without its WHERE clause.
UpdatedRowsAll(live, rows, name, new_value, id) ==
    [i \in 1..Len(rows) |-> [rows[i] EXCEPT ![name] = Stored(live, name, new_value)]]

\* UPDATE t SET name=? WHERE __id=?  with [new_value, id].
UpdatedRows(live, rows, name, new_value, id) ==
    [i \in 1..Len(rows) |->
        IF rows[i][id_key_name] = Adapt(id)
        THEN [rows[i] EXCEPT ![name] = Stored(live, name, new_value)]
        ELSE rows[i]]

\* ALTER TABLE t ADD COLUMN: every row reads the new column's DEFAULT.
RECURSIVE RowsWithColumns(_, _, _)
RowsWithColumns(rows, added, i) ==
    IF i > Len(added) THEN rows
    ELSE RowsWithColumns(
             [k \in 1..Len(rows) |->
                 (added[i].column_name :>
                     DefaultValue(added[i].column_type, added[i].default_value))
                 @@ rows[k]],
             added, i + 1)

\* Lines 233-234 and 243-244: the declared names the object carries, in the
\* order of self.columns.
RECURSIVE Present(_, _, _)
Present(columns, attrs, i) ==
    IF i > Len(columns) THEN <<>>
    ELSE IF hasattr(attrs, columns[i].name)
         THEN <<columns[i].name>> \o Present(columns, attrs, i + 1)
         ELSE Present(columns, attrs, i + 1)

\* A row_to_object that leaves the identity column out of the keywords.
row_to_object_no_id(columns, casters, row) ==
    mapped_object(casters, [c \in Names(columns) \ {id_key_name} |-> FromSql(row[c])])

\* row_to_object, lines 223-227.
row_to_object(columns, casters, row) ==
    mapped_object(casters, [c \in Names(columns) |-> FromSql(row[c])])

\* get_all_objects, lines 222-230: SELECT <self.columns> FROM t, one object
\* per row.
get_all_objects(columns, casters, rows) ==
    [i \in 1..Len(rows) |-> row_to_object(columns, casters, rows[i])]

(***************************************************************************)
(* Bounds and inputs.                                                      *)
(***************************************************************************)
MaxObjs == 2
MaxRows == 2
MaxSaves == 2
MaxSchemaLen == 2

Threads == {1, 2}

Str07 == <<"0", "7">>
StrBob == <<"b", "o", "b">>

\* The values callers assign and pass to create().
AssignValues == {None, PyStr(Str07)}
IdValues == {None, PyInt(1)}

\* Declared schemas of the stores whose records are followed.
SchemaStr == <<Definition("a", "type", "str", Absent)>>
SchemaBool == <<Definition("a", "type", "bool", Absent)>>
SchemaFloat == <<Definition("a", "dict", "float", Absent)>>
SchemaIntStr ==
    <<Definition("a", "dict", "int", PyInt(5)), Definition("b", "type", "str", Absent)>>
SchemaEmpty == <<>>

\* <<an earlier store created the table, the schema it did so with, the
\* schema of the store>>.
StoreConfigs ==
    {<<FALSE, <<>>, s>> : s \in {SchemaStr, SchemaBool, SchemaFloat, SchemaIntStr}}
        \cup {<<TRUE, SchemaStr, SchemaEmpty>>}
ThreadedConfigs == {<<FALSE, <<>>, SchemaStr>>}
\* A str column whose declared default is the int 5, beside a bool column.
SchemaStrDefault ==
    <<Definition("a", "dict", "str", PyInt(5)), Definition("b", "type", "bool", Absent)>>
AttrConfigs == {<<FALSE, <<>>, SchemaIntStr>>, <<FALSE, <<>>, SchemaStrDefault>>}

VARIABLES
    table_exists,   \* the table is in sqlite_master
    live_columns,   \* PRAGMA table_info: the live columns, in order
    rows,           \* the table's rows
    store,          \* the ORM object: usable, self.columns, argument_typecasters, connection_lock
    construct,      \* the last constructor call: schema, result, statements, table before
    objs,           \* the mapped objects created so far: their attributes
    meta,           \* per object: how it was made, the save() calls and INSERTs made for it
    fetched,        \* the objects get_all_objects() has just returned (dropped at the next call)
    threads,        \* the threads that use the store
    pc,             \* per thread: where it is inside save()
    cur,            \* per thread: the object it is saving
    params,         \* per thread: the statement parameters read from the object
    raised          \* <<the last call, the exception it ended with or "">>

db_vars == <<table_exists, live_columns, rows>>
obj_vars == <<objs, meta, fetched>>
thread_vars == <<threads, pc, cur, params>>
vars == <<table_exists, live_columns, rows, store, construct, objs, meta, fetched,
          threads, pc, cur, params, raised>>

\* self.connection_lock, a threading.RLock: the thread that owns it (0: none)
\* and how often that thread has acquired it.
Unlocked == [owner |-> 0, count |-> 0]

NoStore ==
    [usable |-> FALSE, columns |-> <<>>, casters |-> <<>>, connection_lock |-> Unlocked]
NoConstruct ==
    [schema |-> <<>>, result |-> "", statements |-> <<>>,
     exists_before |-> FALSE, live_before |-> <<>>]

\* created_id: the identity the object carried when create() returned it
\* (Absent if none); calls: the save() calls made on it; row_of: the ids of
\* the rows INSERTed for it; dirty: assigned to since its last save().
Meta(created_id) ==
    [created_id |-> created_id, calls |-> 0, row_of |-> <<>>, dirty |-> FALSE,
     fetched |-> FALSE]

\* The store of a successful constructor call.
StoreOf(out) ==
    [usable |-> TRUE, columns |-> out.columns, casters |-> out.casters,
     connection_lock |-> Unlocked]

(***************************************************************************)
(* Initial states.                                                         *)
(***************************************************************************)
\* No table, no store: before any ORM(...) call.
InitSync ==
    /\ table_exists = FALSE /\ live_columns = <<>> /\ rows = <<>>
    /\ store = NoStore /\ construct = NoConstruct
    /\ objs = <<>> /\ meta = <<>> /\ fetched = <<>>
    /\ threads = {1} /\ pc = [t \in {1} |-> "idle"] /\ cur = [t \in {1} |-> 0]
    /\ params = [t \in {1} |-> <<>>]
    /\ raised = <<"", "">>

\* A store just constructed (ORM.__init__ returned), used by the threads ts.
InitStore(ts, configs) ==
    \E cfg \in configs :
        LET pre == IF cfg[1] THEN ORM_init(FALSE, <<>>, cfg[2])
                   ELSE Constructed("ok", <<>>, FALSE, <<>>, <<>>, <<>>)
            out == ORM_init(pre.exists, pre.live, cfg[3])
        IN  /\ pre.result = "ok" /\ out.result = "ok"
            /\ table_exists = out.exists /\ live_columns = out.live /\ rows = <<>>
            /\ store = StoreOf(out)
            /\ construct = [schema |-> cfg[3], result |-> out.result,
                            statements |-> out.statements,
                            exists_before |-> pre.exists, live_before |-> pre.live]
            /\ objs = <<>> /\ meta = <<>> /\ fetched = <<>>
            /\ threads = ts /\ pc = [t \in ts |-> "idle"] /\ cur = [t \in ts |-> 0]
            /\ params = [t \in ts |-> <<>>]
            /\ raised = <<"__init__", "">>

(***************************************************************************)
(* Actions on mapped objects.                                              *)
(***************************************************************************)
DeclaredNames == Names(store.columns) \ {id_key_name}

\* The keywords create() is called with: none, one declared or undeclared
\* name, or the identity name.
CreateInputs ==
    {<<>>}
        \cup {(k :> v) : k \in {"a", "b", "extra"}, v \in AssignValues}
        \cup {(id_key_name :> v) : v \in IdValues}

\* obj = store(**kwargs): ORM.__call__.  A failing setattr leaves no object.
Create(t, kwargs) ==
    /\ store.usable /\ pc[t] = "idle"
    /\ Len(objs) < MaxObjs
    /\ \E made \in {ORM_call(store.columns, store.casters, kwargs)} :
           IF made.ok
           THEN /\ objs' = Append(objs, made.attrs)
                /\ meta' = Append(meta, Meta(IF hasattr(made.attrs, id_key_name)
                                              THEN made.attrs[id_key_name] ELSE Absent))
                /\ raised' = <<"__call__", "">>
           ELSE /\ UNCHANGED <<objs, meta>>
                /\ raised' = <<"__call__", made.exc>>
    /\ fetched' = <<>>
    /\ UNCHANGED <<db_vars, store, construct, thread_vars>>

\* setattr(obj, key, value) by a caller: ClassFactory.__setattr__.
SetAttribute(t, r, key, value) ==
    /\ pc[t] = "idle"
    /\ r \in 1..Len(objs)
    /\ \E set \in {setattr(store.casters, objs[r], key, value)} :
           /\ objs' = [objs EXCEPT ![r] = set.attrs]
           /\ meta' = [meta EXCEPT ![r].dirty = @ \/ set.attrs # objs[r]]
           /\ raised' = <<"__setattr__", set.exc>>
    /\ fetched' = <<>>
    /\ UNCHANGED <<db_vars, store, construct, thread_vars>>

\* obj.<declared column or undeclared name> = value
AssignKeys == {"a", "b", "extra"}
Assign(t, r, key, value) ==
    /\ key \in DeclaredNames \cup {"extra"}
    /\ SetAttribute(t, r, key, value)

\* obj.<one of the two names of line 131> = value
AssignSlot(t, r, key, value) ==
    /\ key \in exceptions
    /\ SetAttribute(t, r, key, value)

\* obj.save() up to its first statement: ORMBase.save, lines 61-67, and the
\* reads of insert_row (233-234) or update (243-244).
SaveCall(t, r) ==
    /\ pc[t] = "idle"
    /\ r \in 1..Len(objs)
    /\ meta[r].calls < MaxSaves
    /\ meta' = [meta EXCEPT ![r].calls = @ + 1, ![r].dirty = FALSE]
    /\ \E attrs \in {objs[r]}, present \in {Present(store.columns, objs[r], 1)} :
           IF attrs["_ORMBase__orm"] # OrmRef
           THEN \* self.__orm is not the store: no insert_row / update on it
                /\ raised' = <<"save", "AttributeError">>
                /\ UNCHANGED <<pc, cur, params>>
           ELSE IF ~hasattr(attrs, id_key_name)
           THEN IF present = <<>>
                THEN \* column_names, values = zip(*[]) cannot unpack
                     /\ raised' = <<"save", "ValueError">>
                     /\ UNCHANGED <<pc, cur, params>>
                ELSE /\ pc' = [pc EXCEPT ![t] = "insert"]
                     /\ cur' = [cur EXCEPT ![t] = r]
                     /\ params' = [params EXCEPT ![t] =
                            [i \in 1..Len(present) |-> <<present[i], attrs[present[i]]>>]]
                     /\ raised' = <<"save", "">>
           ELSE /\ pc' = [pc EXCEPT ![t] = "update"]
                /\ cur' = [cur EXCEPT ![t] = r]
                /\ params' = [params EXCEPT ![t] =
                       [i \in 1..Len(present) |-> <<present[i], attrs[present[i]]>>]]
                /\ raised' = <<"save", "">>
    /\ fetched' = <<>>
    /\ UNCHANGED <<db_vars, store, construct, objs, threads>>

\* The pairs of params as a function from column name to value.
AsValues(pairs) ==
    [c \in {pairs[i][1] : i \in 1..Len(pairs)} |->
        pairs[CHOOSE i \in 1..Len(pairs) : pairs[i][1] = c][2]]

\* insert_row, lines 235-238: the INSERT, one execute_query.
InsertExec(t) ==
    /\ pc[t] = "insert"
    /\ Len(rows) < MaxRows
    /\ \E row \in {InsertedRow(live_columns, rows, AsValues(params[t]))} :
           /\ rows' = Append(rows, row)
           /\ meta' = [meta EXCEPT ![cur[t]].row_of = Append(@, RowId(row))]
    /\ pc' = [pc EXCEPT ![t] = "reread"]
    /\ fetched' = <<>>
    /\ UNCHANGED <<table_exists, live_columns, store, construct, objs,
                   threads, cur, params, raised>>

\* insert_row, lines 239-240: SELECT __id ... ORDER BY __id DESC LIMIT 1 in
\* a second execute_query, then setattr(mapped_object, "__id", new_id).
InsertReread(t) ==
    /\ pc[t] = "reread"
    /\ LET new_id == PyInt(MaxId(rows))
           set == setattr(store.casters, objs[cur[t]], id_key_name, new_id)
       IN  objs' = [objs EXCEPT ![cur[t]] = set.attrs]
    /\ pc' = [pc EXCEPT ![t] = "idle"]
    /\ cur' = [cur EXCEPT ![t] = 0]
    /\ params' = [params EXCEPT ![t] = <<>>]
    /\ fetched' = <<>>
    /\ UNCHANGED <<db_vars, store, construct, meta, threads, raised>>

\* update, lines 245-247: the next single-column UPDATE, one execute_query;
\* the WHERE parameter is read from the object at each statement.
UpdateExec(t) ==
    /\ pc[t] = "update"
    /\ LET setter == Head(params[t])
           id == objs[cur[t]][id_key_name]
       IN  rows' = UpdatedRows(live_columns, rows, setter[1], setter[2], id)
    /\ IF Len(params[t]) = 1
       THEN /\ pc' = [pc EXCEPT ![t] = "idle"]
            /\ cur' = [cur EXCEPT ![t] = 0]
       ELSE UNCHANGED <<pc, cur>>
    /\ params' = [params EXCEPT ![t] = Tail(@)]
    /\ fetched' = <<>>
    /\ UNCHANGED <<table_exists, live_columns, store, construct, objs, meta, threads, raised>>

\* objects = store.get_all_objects(): one SELECT, one object per row.
FetchAll(t) ==
    /\ store.usable /\ pc[t] = "idle"
    /\ \E got \in {get_all_objects(store.columns, store.casters, rows)} :
           IF \A i \in 1..Len(got) : got[i].ok
           THEN /\ fetched' = [i \in 1..Len(got) |-> got[i].attrs]
                /\ raised' = <<"get_all_objects", "">>
           ELSE /\ UNCHANGED fetched
                /\ raised' = <<"get_all_objects", "ValueError">>
    /\ UNCHANGED <<db_vars, store, construct, objs, meta, thread_vars>>

\* The caller keeps the i-th object get_all_objects() has just returned.
Adopt(t, i) ==
    /\ pc[t] = "idle"
    /\ i \in 1..Len(fetched)
    /\ Len(objs) < MaxObjs
    /\ objs' = Append(objs, fetched[i])
    /\ meta' = Append(meta, [Meta(fetched[i][id_key_name]) EXCEPT !.fetched = TRUE])
    /\ fetched' = <<>>
    /\ UNCHANGED <<db_vars, store, construct, thread_vars, raised>>

(***************************************************************************)
(* Specifications of the record lifecycle.                                 *)
(***************************************************************************)
Next ==
    \/ \E t \in threads, kwargs \in CreateInputs : Create(t, kwargs)
    \/ \E t \in threads, r \in 1..MaxObjs, key \in AssignKeys, value \in AssignValues :
           Assign(t, r, key, value)
    \/ \E t \in threads, r \in 1..MaxObjs : SaveCall(t, r)
    \/ \E t \in threads : InsertExec(t)
    \/ \E t \in threads : InsertReread(t)
    \/ \E t \in threads : UpdateExec(t)
    \/ \E t \in threads : FetchAll(t)

\* Two threads share one store.
Init == InitStore(Threads, ThreadedConfigs)
Spec == Init /\ [][Next]_vars

\* One thread uses the store.
InitSeq == InitStore({1}, StoreConfigs)
SpecSeq == InitSeq /\ [][Next]_vars

\* The record lifecycle with objects kept from get_all_objects().
NextFetched ==
    \/ Next
    \/ \E t \in threads, i \in 1..MaxRows : Adopt(t, i)

\* Two threads share a store with two declared columns and keep fetched
\* objects.
UpdateConfigs == {<<FALSE, <<>>, SchemaIntStr>>}
InitUpdate == InitStore(Threads, UpdateConfigs)
\* Thread 1 creates an object with the defaults, fetches and keeps the
\* copies; both threads assign "07" to declared columns and save.
NextUpdate ==
    \/ Create(1, <<>>)
    \/ \E t \in threads, r \in 1..MaxObjs, key \in {"a", "b"} :
           Assign(t, r, key, PyStr(Str07))
    \/ \E t \in threads, r \in 1..MaxObjs : SaveCall(t, r)
    \/ \E t \in threads : InsertExec(t)
    \/ \E t \in threads : InsertReread(t)
    \/ \E t \in threads : UpdateExec(t)
    \/ FetchAll(1)
    \/ \E i \in 1..MaxRows : Adopt(1, i)
SpecUpdate == InitUpdate /\ [][NextUpdate]_vars

\* One thread uses the store and keeps fetched objects.
FetchedConfigs == {<<FALSE, <<>>, s>> : s \in {SchemaBool, SchemaIntStr}}
InitFetched == InitStore({1}, FetchedConfigs)
SpecFetched == InitFetched /\ [][NextFetched]_vars

\* One thread creates objects and assigns attributes, the two names of
\* line 131 among them.
NextAttr ==
    \/ \E t \in threads, kwargs \in CreateInputs : Create(t, kwargs)
    \/ \E t \in threads, r \in 1..MaxObjs, key \in AssignKeys, value \in AssignValues :
           Assign(t, r, key, value)
    \/ \E t \in threads, r \in 1..MaxObjs, key \in exceptions, value \in AssignValues :
           AssignSlot(t, r, key, value)
InitAttr == InitStore({1}, AttrConfigs)
SpecAttr == InitAttr /\ [][NextAttr]_vars

\* A store constructed over a table an earlier store (another program
\* version) left: the earlier schema, then this store's schema.  Either
\* constructor call may fail; a failed second call leaves no usable store.
SchemaB == <<Definition("b", "type", "str", Absent)>>
SchemaIntA == <<Definition("a", "dict", "int", PyInt(5))>>
SchemaBoolB ==
    <<Definition("b", "type", "bool", Absent), Definition("a", "dict", "int", PyInt(5))>>
LegacyConfigs ==
    {<<pre, s>> : pre \in {SchemaIntStr, SchemaStr, SchemaEmpty},
                  s \in {SchemaB, SchemaStr, SchemaIntA, SchemaBoolB, SchemaEmpty}}

InitLegacy ==
    \E cfg \in LegacyConfigs :
        LET pre == ORM_init(FALSE, <<>>, cfg[1])
            out == ORM_init(pre.exists, pre.live, cfg[2])
        IN  /\ table_exists = out.exists /\ live_columns = out.live /\ rows = <<>>
            /\ store = IF out.result = "ok" THEN StoreOf(out) ELSE NoStore
            /\ construct = [schema |-> cfg[2], result |-> out.result,
                            statements |-> out.statements,
                            exists_before |-> pre.exists, live_before |-> pre.live]
            /\ objs = <<>> /\ meta = <<>> /\ fetched = <<>>
            /\ threads = {1} /\ pc = [t \in {1} |-> "idle"] /\ cur = [t \in {1} |-> 0]
            /\ params = [t \in {1} |-> <<>>]
            /\ raised = <<"__init__", IF out.result = "ok" THEN "" ELSE out.result>>
SpecLegacy == InitLegacy /\ [][Next]_vars

(***************************************************************************)
(* execute_query, lines 146-153, step by step: two threads send statements *)
(* through one store.  pc[t] is the thread's place in execute_query and    *)
(* params[t] the statement it sends.                                       *)
(***************************************************************************)
\* The statements: the SELECT of get_all_objects, the INSERT of insert_row,
\* an UPDATE of update, and the CREATE TABLE sync writes for a schema
\* without columns, which the engine refuses.
Queries ==
    {<<"SELECT">>, <<"INSERT", PyStr(Str07)>>, <<"UPDATE", PyStr(StrBob)>>, <<"CREATE">>}

InBlock == {"execute", "commit", "fetchall", "exit"}
Inserting(t) == pc[t] \in {"with", "execute"} /\ params[t][1] = "INSERT"

\* A method of the store calls self.execute_query(query, params).
QueryCall(t, query) ==
    /\ store.usable /\ pc[t] = "idle"
    /\ query[1] = "INSERT" =>
           Len(rows) + Cardinality({u \in threads : Inserting(u)}) < MaxRows
    /\ pc' = [pc EXCEPT ![t] = "with"]
    /\ params' = [params EXCEPT ![t] = query]
    /\ UNCHANGED <<db_vars, store, construct, obj_vars, threads, cur, raised>>

\* A lock any thread takes, held or not.
LockAcquireUnguarded(t) ==
    /\ pc[t] = "with"
    /\ store' = [store EXCEPT !.connection_lock = [owner |-> t, count |-> 1]]
    /\ pc' = [pc EXCEPT ![t] = "execute"]
    /\ UNCHANGED <<db_vars, construct, obj_vars, threads, cur, params, raised>>

\* Line 147, with self.connection_lock: RLock.acquire() returns when no
\* other thread owns the lock.
LockAcquire(t) ==
    /\ pc[t] = "with"
    /\ store.connection_lock.owner \in {0, t}
    /\ store' = [store EXCEPT !.connection_lock = [owner |-> t, count |-> @.count + 1]]
    /\ pc' = [pc EXCEPT ![t] = "execute"]
    /\ UNCHANGED <<db_vars, construct, obj_vars, threads, cur, params, raised>>

\* Lines 148-149: cursor.execute(query, params).  A statement the engine
\* refuses raises and control leaves the with block.
CursorExecute(t) ==
    /\ pc[t] = "execute"
    /\ CASE params[t][1] = "INSERT" ->
              /\ rows' = Append(rows, InsertedRow(live_columns, rows, ("a" :> params[t][2])))
              /\ pc' = [pc EXCEPT ![t] = "commit"]
              /\ UNCHANGED params
         [] params[t][1] = "UPDATE" ->
              /\ rows' = UpdatedRows(live_columns, rows, "a", params[t][2], PyInt(1))
              /\ pc' = [pc EXCEPT ![t] = "commit"]
              /\ UNCHANGED params
         [] params[t][1] = "SELECT" ->
              /\ pc' = [pc EXCEPT ![t] = "commit"]
              /\ UNCHANGED <<rows, params>>
         [] OTHER ->
              /\ pc' = [pc EXCEPT ![t] = "exit"]
              /\ params' = [params EXCEPT ![t] = <<"OperationalError">>]
              /\ UNCHANGED rows
    /\ UNCHANGED <<table_exists, live_columns, store, construct, obj_vars, threads, cur, raised>>

\* Line 150: self.connection.commit().
Commit(t) ==
    /\ pc[t] = "commit"
    /\ pc' = [pc EXCEPT ![t] = "fetchall"]
    /\ UNCHANGED <<db_vars, store, construct, obj_vars, threads, cur, params, raised>>

\* Lines 151-152: cursor.fetchall(), cursor.close().
Fetchall(t) ==
    /\ pc[t] = "fetchall"
    /\ pc' = [pc EXCEPT ![t] = "exit"]
    /\ params' = [params EXCEPT ![t] = <<"">>]
    /\ UNCHANGED <<db_vars, store, construct, obj_vars, threads, cur, raised>>

\* The with block's exit, on return (line 153) or on an exception:
\* RLock.release().
LockRelease(t) ==
    /\ pc[t] = "exit"
    /\ store' = [store EXCEPT !.connection_lock =
                    IF @.count = 1 THEN Unlocked ELSE [@ EXCEPT !.count = @ - 1]]
    /\ pc' = [pc EXCEPT ![t] = "idle"]
    /\ raised' = <<"execute_query", params[t][1]>>
    /\ params' = [params EXCEPT ![t] = <<>>]
    /\ UNCHANGED <<db_vars, construct, obj_vars, threads, cur>>

NextLock ==
    \/ \E t \in threads, query \in Queries : QueryCall(t, query)
    \/ \E t \in threads : LockAcquire(t)
    \/ \E t \in threads : CursorExecute(t)
    \/ \E t \in threads : Commit(t)
    \/ \E t \in threads : Fetchall(t)
    \/ \E t \in threads : LockRelease(t)

InitLock == InitStore(Threads, ThreadedConfigs)
SpecLock == InitLock /\ [][NextLock]_vars

\* A thread that has acquired the lock, or finds it free, runs on: every
\* call inside execute_query is blocking and returns.
FairLock ==
    \A t \in Threads :
        /\ WF_vars(LockAcquire(t)) /\ WF_vars(CursorExecute(t))
        /\ WF_vars(Commit(t)) /\ WF_vars(Fetchall(t)) /\ WF_vars(LockRelease(t))
SpecLockFair == SpecLock /\ FairLock

(***************************************************************************)
(* Specification of store construction: ORM(database_name, schema) called  *)
(* again and again on one database, each call with a declared schema.      *)
(***************************************************************************)
SyncDefinitions ==
    {Definition(n, "dict", "int", PyInt(5)) : n \in {"a", "b"}}
        \cup {Definition(n, "dict", "int", Absent) : n \in {"a", "b"}}
        \cup {Definition(n, "dict", "str", PyStr(StrBob)) : n \in {"a", "b"}}
        \cup {Definition(n, "type", "str", Absent) : n \in {"a", "b"}}
        \cup {Definition("b", "type", "list", Absent),
              Definition("b", "dict", "list", Absent),
              Definition("b", "dict", "missing", Absent),
              Definition("b", "other", "missing", Absent),
              Definition(id_key_name, "type", "int", Absent)}

\* The declared schemas: up to MaxSchemaLen definitions with distinct names,
\* in the order the constructor's loop meets them.
SyncSchemas ==
    UNION {{s \in [1..n -> SyncDefinitions] :
                \A i, j \in 1..n : i # j => s[i].name # s[j].name} : n \in 0..MaxSchemaLen}

\* store = ORM(database_name, schema)
Construct(schema) ==
    /\ \E out \in {ORM_init(table_exists, live_columns, schema)} :
           /\ table_exists' = out.exists
           /\ live_columns' = out.live
           /\ rows' = RowsWithColumns(rows, SubSeq(out.live, Len(live_columns) + 1, Len(out.live)), 1)
           /\ store' = IF out.result = "ok" THEN StoreOf(out) ELSE NoStore
           /\ construct' = [schema |-> schema, result |-> out.result,
                            statements |-> out.statements,
                            exists_before |-> table_exists,
                            live_before |-> live_columns]
           /\ raised' = <<"__init__", IF out.result = "ok" THEN "" ELSE out.result>>
    /\ UNCHANGED <<obj_vars, thread_vars>>

NextSync == \E schema \in SyncSchemas : Construct(schema)
SpecSync == InitSync /\ [][NextSync]_vars

(***************************************************************************)
(* The claims.                                                             *)
(***************************************************************************)
Idle == \A t \in threads : pc[t] = "idle"
Saving(r) == \E t \in threads : cur[t] = r
DeclaresColumns == DeclaredNames # {}

\* The identity an object carries, Absent if it carries none.
IdentityOf(attrs) == IF hasattr(attrs, id_key_name) THEN attrs[id_key_name] ELSE Absent

\* C1: with one thread, an object that create() returned without an identity
\* and on which save() has been called (once or more, the last call having
\* returned) has had exactly one row INSERTed for it and carries a non-null
\* identity.
C1_OneInsertPerRecord ==
    \A r \in 1..Len(objs) :
        (meta[r].created_id = Absent /\ meta[r].calls >= 1 /\ ~Saving(r))
            => /\ Len(meta[r].row_of) = 1
               /\ IdentityOf(objs[r]) \notin {Absent, None}

\* The same, for stores that declare at least one column.
C1_OneInsertPerRecord_WithColumns == DeclaresColumns => C1_OneInsertPerRecord

\* The objects save() has been called on.
SavedRecords == {r \in 1..Len(objs) : meta[r].calls >= 1}

\* C2: round trip.  With one thread at rest, on a table that started empty,
\* when every object was created without an identity, get_all_objects()
\* returns as many objects as were saved, and each saved object has a
\* returned one with its identity (the id of the row inserted for it) and,
\* unless it was assigned to after its save(), its declared field values.
\* Stated for the stores that declare a column: C1 covers the store that
\* declares none.
C2_RoundTrip ==
    (Idle /\ DeclaresColumns /\ \A r \in 1..Len(objs) : meta[r].created_id = Absent)
        => LET got == get_all_objects(store.columns, store.casters, rows)
           IN  /\ Len(got) = Cardinality(SavedRecords)
               /\ \A r \in SavedRecords : \E i \in 1..Len(got) :
                      /\ got[i].ok
                      /\ IdentityOf(got[i].attrs) = IdentityOf(objs[r])
                      /\ IdentityOf(objs[r]) = PyInt(meta[r].row_of[1])
                      /\ ~meta[r].dirty =>
                             \A c \in DeclaredNames : got[i].attrs[c] = objs[r][c]

(***************************************************************************)
(* Claims about construction and sync(), read off the last constructor     *)
(* call (construct) and the table it left.                                 *)
(***************************************************************************)
\* The last call's schema as self.columns, when it passes validation.
Validation(schema) == InitLoop(schema, 1, <<IdColumn>>, (id_key_name :> "int"), "unbound")
Validated(schema) == id_key_name \notin Names(schema) /\ Validation(schema).result = "ok"

\* The last call reached sync() and found the table.
Reconciled == construct.exists_before /\ Validated(construct.schema)

IsDDL(statement) == statement[1] \in {"ALTER", "CREATE"}
DDLOf(statements) == SelectSeq(statements, IsDDL)

\* A live column and a declared column of the same name disagree: in SQL
\* type, or in default (the live DEFAULT text against the declared default
\* as the DDL spells it).
Differs(db, col) ==
    \/ db.column_type # known_column_types(col.type)
    \/ db.default_value # RenderDefault(GetDefault(col))
Conflict(live, columns) ==
    \E i \in 1..Len(live) :
        /\ live[i].column_name \in Names(columns)
        /\ Differs(live[i], ColumnNamed(columns, live[i].column_name))

\* The declared columns the live table does not name.
Missing(live, columns) == Names(columns) \ LiveNames(live)

\* C3: sync is idempotent.  A constructor call that follows a successful one
\* with the same valid declared schema (long or short form, known types)
\* succeeds and executes no DDL.
ValidSchema(schema) ==
    /\ id_key_name \notin Names(schema)
    /\ \A i \in 1..Len(schema) :
           schema[i].form \in {"dict", "type"} /\ schema[i].type \in KnownTypes
C3_Step ==
    (/\ ValidSchema(construct.schema)
     /\ construct.result = "ok" /\ construct'.schema = construct.schema)
        => (construct'.result = "ok" /\ DDLOf(construct'.statements) = <<>>)
C3_Idempotent == [][C3_Step]_vars

\* C4: when a live column that shares its name with a declared column
\* disagrees with it in type or default, sync raises TypeError, has executed
\* no DDL, and the live table is as it was before the call, whatever columns
\* were missing.
C4_ConflictStopsSync ==
    (Reconciled /\ Conflict(construct.live_before, Validation(construct.schema).columns))
        => /\ construct.result = "TypeError"
           /\ DDLOf(construct.statements) = <<>>
           /\ table_exists /\ live_columns = construct.live_before
           /\ ~store.usable

\* C4's case: a conflicting call that also had a declared column to add.
C4_Witness ==
    /\ Reconciled
    /\ Conflict(construct.live_before, Validation(construct.schema).columns)
    /\ Missing(construct.live_before, Validation(construct.schema).columns) # {}
    /\ construct.result = "TypeError"

\* C5: additive-only migration.  When the declared columns are a superset of
\* the live ones by name and no shared column disagrees in type or default,
\* sync succeeds, executes exactly one ADD COLUMN per missing declared column
\* and nothing else, and keeps every live column and row as it was.
C5_AdditiveOnly ==
    LET columns == Validation(construct.schema).columns
        before == construct.live_before
    IN  (/\ Reconciled
         /\ LiveNames(before) \subseteq Names(columns)
         /\ ~Conflict(before, columns))
            => /\ construct.result = "ok"
               /\ Len(DDLOf(construct.statements)) = Cardinality(Missing(before, columns))
               /\ \A i \in 1..Len(DDLOf(construct.statements)) :
                      /\ DDLOf(construct.statements)[i][1] = "ALTER"
                      /\ DDLOf(construct.statements)[i][2].column_name \in Missing(before, columns)
               /\ SubSeq(live_columns, 1, Len(before)) = before
               /\ LiveNames(live_columns) = Names(columns)

\* C10: a schema that uses the reserved identity name, or that has a column
\* whose type is not one of the four known types, makes the constructor fail
\* before any statement and leaves no store.
BadSchema(schema) ==
    \/ id_key_name \in Names(schema)
    \/ \E i \in 1..Len(schema) : schema[i].type \notin KnownTypes
C10_ValidationFirst ==
    (raised[1] = "__init__" /\ BadSchema(construct.schema))
        => /\ construct.result # "ok"
           /\ construct.statements = <<>>
           /\ ~store.usable

(***************************************************************************)
(* Claims about mapped objects.                                            *)
(***************************************************************************)
\* C6: with two threads saving objects created without an identity, an
\* object whose one save() has returned, and for which one row was inserted,
\* carries the id of that row; so no two such objects carry the same id.
C6_IdentityOfOwnRow ==
    \A r \in 1..Len(objs) :
        (/\ meta[r].created_id = Absent
         /\ meta[r].calls = 1 /\ ~Saving(r)
         /\ Len(meta[r].row_of) = 1)
            => IdentityOf(objs[r]) = PyInt(meta[r].row_of[1])

\* The names an object may come to carry.
LegalNames == DeclaredNames \cup {id_key_name} \cup exceptions

\* The attribute names callers try in the model.
TriedNames == AssignKeys \cup exceptions

\* A caller's setattr of a name outside `allowed` ends in TypeError and
\* leaves every object as it was.
RejectsOutside(allowed) ==
    \A t \in threads, r \in 1..MaxObjs, key \in TriedNames \ allowed, value \in AssignValues :
        SetAttribute(t, r, key, value) => (raised' = <<"__setattr__", "TypeError">> /\ objs' = objs)

CarriesOnlyLegalNames == \A r \in 1..Len(objs) : DOMAIN objs[r] \subseteq LegalNames

\* C7 as claimed: assigning any name outside the declared columns and the
\* identity field fails with TypeError and changes nothing, and an object
\* only ever carries declared columns, the identity field and the two
\* bookkeeping names.
C7_ClosedAttributeSet ==
    [][RejectsOutside(DeclaredNames \cup {id_key_name})]_vars /\ []CarriesOnlyLegalNames

\* C7 as amended: the two bookkeeping names of line 131 are assignable too;
\* every other name outside the declared columns and the identity field is
\* rejected as claimed.
C7_ClosedAttributeSet_Amended ==
    [][RejectsOutside(LegalNames)]_vars /\ []CarriesOnlyLegalNames

\* C7's case: an assignment to an undeclared name has just been rejected on
\* an object that carries values.
C7_Witness ==
    /\ raised = <<"__setattr__", "TypeError">>
    /\ \E r \in 1..Len(objs) : \E c \in DeclaredNames : objs[r][c] # None

\* The Python type of a declared column's values.
ColumnType(name) == ColumnNamed(store.columns, name).type

TypedOrNone(attrs) ==
    \A c \in DeclaredNames :
        hasattr(attrs, c) => (attrs[c] = None \/ TypeOf(attrs[c]) = ColumnType(c))

\* Every declared field of every object, created or fetched, holds None or
\* a value of the column's type.
FieldsTypedOrNone ==
    /\ \A r \in 1..Len(objs) : TypedOrNone(objs[r])
    /\ \A i \in 1..Len(fetched) : TypedOrNone(fetched[i])

\* None stays None: through an assignment, through create() (a None keyword,
\* or a column left out that has no default), through a fetched NULL.  Any
\* other assigned value is stored as the column type's constructor makes it.
NoneStaysNone ==
    /\ raised'[1] = "__setattr__" =>
           \A t \in threads, r \in 1..MaxObjs, key \in DeclaredNames, value \in AssignValues :
               (SetAttribute(t, r, key, value) /\ raised'[2] = "") =>
                   objs'[r][key] = IF value = None THEN None
                                   ELSE TypeCall(ColumnType(key), value)
    /\ raised'[1] = "__call__" =>
           \A t \in threads, kwargs \in CreateInputs :
               (Create(t, kwargs) /\ raised'[2] = "") =>
                   \A c \in DeclaredNames :
                       (IF c \in DOMAIN kwargs THEN kwargs[c]
                        ELSE GetDefault(ColumnNamed(store.columns, c))) = None
                           => objs'[Len(objs')][c] = None
    /\ raised'[1] = "get_all_objects" =>
           \A t \in threads :
               (FetchAll(t) /\ raised'[2] = "") =>
                   \A i \in 1..Len(rows) : \A c \in DeclaredNames :
                       rows[i][c] = SqlNull => fetched'[i][c] = None

\* C8: every value in a declared field is None or of the column's type, and
\* None is stored as None.
C8_NullSafeCoercion == []FieldsTypedOrNone /\ [][NoneStaysNone]_vars

\* C8's case: a fetched object with a None field beside a created object
\* with a coerced one.
C8_Witness ==
    /\ \E i \in 1..Len(fetched) : \E c \in DeclaredNames : fetched[i][c] = None
    /\ \E r \in 1..Len(objs) : \E c \in DeclaredNames :
           objs[r][c] # None /\ TypeOf(objs[r][c]) = ColumnType(c)

\* C9: create() never returns an object that carries an identity value,
\* whatever keywords it is given, and once save() has returned on an object
\* of a store that declares columns, a row has been INSERTed for it.
C9_CreateNeverSetsIdentity ==
    \A r \in 1..Len(objs) :
        /\ meta[r].created_id \in {Absent, None}
        /\ (meta[r].calls >= 1 /\ ~Saving(r) /\ DeclaresColumns) => Len(meta[r].row_of) >= 1

(***************************************************************************)
(* Claims about a table that has columns the store does not declare.       *)
(***************************************************************************)
\* The live columns the declared schema names, in the table's order.
Recognized(live, columns) ==
    LET Named(db) == db.column_name \in Names(columns)
    IN  SelectSeq(live, Named)
UnrecognizedNames(live, columns) == LiveNames(live) \ Names(columns)

\* C11: live columns the schema does not name are ignored.  The constructor
\* call ends as it would on the table without them (they never make sync
\* fail) and executes the same statements; every column the table had is
\* still there, as it was; and the objects get_all_objects() returns carry
\* exactly the declared columns, the identity and the owner reference.
C11_UnrecognizedIgnored ==
    LET columns == Validation(construct.schema).columns
        before == construct.live_before
        alone == sync(TRUE, Recognized(before, columns), columns)
    IN  (Reconciled /\ UnrecognizedNames(before, columns) # {})
            => /\ construct.result = alone.result
               /\ construct.statements = alone.statements
               /\ table_exists
               /\ SubSeq(live_columns, 1, Len(before)) = before
               /\ \A i \in 1..Len(fetched) :
                      DOMAIN fetched[i] = Names(columns) \cup {"_ORMBase__orm"}

\* C11's case: a store over a table with a column it does not declare has
\* fetched an object whose row holds a value in that column.
C11_Witness ==
    /\ Reconciled /\ store.usable
    /\ \E c \in UnrecognizedNames(construct.live_before, store.columns) :
           \E i \in 1..Len(fetched) : i <= Len(rows) /\ rows[i][c] # SqlNull

(***************************************************************************)
(* Claims about create().                                                  *)
(***************************************************************************)
\* The default the declared schema gives column c, None when it gives none.
DeclaredDefault(c) ==
    LET d == construct.schema[CHOOSE i \in 1..Len(construct.schema) :
                                  construct.schema[i].name = c]
    IN  IF d.default = Absent THEN None ELSE d.default

\* The value of column c's type made from v; None stays None.
Coerced(c, v) == IF v = None THEN None ELSE TypeCall(ColumnType(c), v)

CreateFillsDefaults ==
    raised'[1] = "__call__" =>
        \A t \in threads, kwargs \in CreateInputs :
            (Create(t, kwargs) /\ raised'[2] = "") =>
                \A c \in DeclaredNames :
                    objs'[Len(objs')][c] =
                        Coerced(c, IF c \in DOMAIN kwargs THEN kwargs[c]
                                   ELSE DeclaredDefault(c))

\* C12: the object create(**fields) returns holds, for every declared column
\* in fields, the coercion of the value given, and for every other declared
\* column the coercion of its declared default, or None when it has none.
C12_CreateFillsDefaults == [][CreateFillsDefaults]_vars

\* C12's case: create() has returned an object whose str column holds "5",
\* made from the declared default 5, beside a column without a default.
C12_Witness ==
    /\ raised = <<"__call__", "">>
    /\ Len(objs) >= 1
    /\ "a" \in DeclaredNames /\ DeclaredDefault("a") = PyInt(5)
    /\ objs[Len(objs)]["a"] = PyStr(<<"5">>)
    /\ \E c \in DeclaredNames : DeclaredDefault(c) = None /\ objs[Len(objs)][c] = None

(***************************************************************************)
(* Claims about objects that carry an identity.                            *)
(***************************************************************************)
\* Object r carries the identity of its own row: the row it was fetched
\* from, or the one row INSERTed for it.
OwnIdentity(r) ==
    /\ IdentityOf(objs[r]) \notin {Absent, None}
    /\ \/ meta[r].fetched /\ IdentityOf(objs[r]) = meta[r].created_id
       \/ /\ ~meta[r].fetched /\ meta[r].created_id = Absent
          /\ Len(meta[r].row_of) = 1 /\ IdentityOf(objs[r]) = PyInt(meta[r].row_of[1])

\* The row holds, in every declared column, what object r's value becomes
\* when stored.
RowEquals(row, r) ==
    \A c \in DeclaredNames : row[c] = Stored(live_columns, c, objs[r][c])

\* C13: when two objects carry the identity of the same row and save() has
\* returned on both (neither assigned to since), the row equals one of the
\* two on all declared columns.
C13_UpdateAtomicPerRow ==
    Idle =>
        \A r1, r2 \in 1..Len(objs) :
            (/\ r1 # r2
             /\ OwnIdentity(r1) /\ OwnIdentity(r2)
             /\ IdentityOf(objs[r1]) = IdentityOf(objs[r2])
             /\ meta[r1].calls >= 1 /\ meta[r2].calls >= 1
             /\ ~meta[r1].dirty /\ ~meta[r2].dirty)
                => \A i \in 1..Len(rows) :
                       rows[i][id_key_name] = Adapt(IdentityOf(objs[r1]))
                           => RowEquals(rows[i], r1) \/ RowEquals(rows[i], r2)

\* A save() call that raises nothing takes the insert path exactly when the
\* object's identity is unset: absent or None.
DispatchOnIdentity ==
    pc' # pc =>
        \A t \in threads, r \in 1..MaxObjs :
            (SaveCall(t, r) /\ raised'[2] = "") =>
                (pc'[t] = "insert" <=> IdentityOf(objs[r]) \in {Absent, None})

\* C14: save() inserts exactly when the object's identity value is unset
\* (absent or None) and updates otherwise.
C14_DispatchOnIdentity == [][DispatchOnIdentity]_vars

(***************************************************************************)
(* Claims about sync() on a database without the table, and about the      *)
(* order of the declared columns.                                          *)
(***************************************************************************)
\* The live columns CREATE TABLE is to make of the declared ones: name,
\* mapped SQL type, and the DEFAULT clause's text, None when the column
\* declares no default or None.
ExpectedLive(schema) ==
    [i \in 1..Len(schema) |->
        LiveColumn(schema[i].name, known_column_types(schema[i].type),
                   IF schema[i].default \in {Absent, None} THEN None
                   ELSE PyUnicode(Val(py_str(schema[i].default))))]

\* C15: on a database without the table, the constructor call of every
\* valid schema (one that declares no columns included) succeeds, executes
\* one CREATE TABLE and no other DDL, and leaves the identity column
\* followed by exactly the declared columns.
C15_CreatePath ==
    (/\ raised[1] = "__init__"
     /\ ~construct.exists_before
     /\ ValidSchema(construct.schema))
        => /\ construct.result = "ok"
           /\ Len(DDLOf(construct.statements)) = 1
           /\ DDLOf(construct.statements)[1][1] = "CREATE"
           /\ table_exists
           /\ live_columns = <<IdLiveColumn>> \o ExpectedLive(construct.schema)

\* The same, for the schemas that declare at least one column.
C15_CreatePath_WithColumns == construct.schema # <<>> => C15_CreatePath

\* The orders in which the constructor's loops can meet a schema's columns.
Orders(n) == {f \in [1..n -> 1..n] : \A i, j \in 1..n : i # j => f[i] # f[j]}
Reordered(schema, f) == [i \in 1..Len(schema) |-> schema[f[i]]]
LiveSet(live) == {live[i] : i \in 1..Len(live)}

\* C17: the last constructor call, of a valid schema, ended as the call of
\* the same columns in any other order would have on the same table: same
\* result, same set of live columns (name, type, default) afterwards.
C17_OrderIndependent ==
    (raised[1] = "__init__" /\ ValidSchema(construct.schema))
        => \A f \in Orders(Len(construct.schema)) :
               LET other == ORM_init(construct.exists_before, construct.live_before,
                                     Reordered(construct.schema, f))
               IN  /\ other.result = construct.result
                   /\ other.exists = table_exists
                   /\ LiveSet(other.live) = LiveSet(live_columns)

\* C17's case: a call of two columns over an existing table whose loop met
\* a column that agrees with the table first and the conflicting one last.
C17_Witness ==
    /\ Reconciled /\ ValidSchema(construct.schema) /\ Len(construct.schema) = 2
    /\ construct.result = "TypeError"
    /\ construct.schema[1].default = Absent
    /\ LET columns == Validation(construct.schema).columns
       IN  /\ ~Conflict(construct.live_before, <<columns[1], columns[2]>>)
           /\ Conflict(construct.live_before, <<columns[1], columns[3]>>)

(***************************************************************************)
(* Claims about fetched objects and the stability of the identity, with    *)
(* one thread.                                                             *)
(***************************************************************************)
RECURSIVE InsertsOf(_)
InsertsOf(r) == IF r = 0 THEN 0 ELSE Len(meta[r].row_of) + InsertsOf(r - 1)

\* C18: every object get_all_objects() returns carries the identity of its
\* row; no row is ever INSERTed for an object kept from it, whatever is
\* assigned to it and however often it is saved; and the table holds exactly
\* the rows INSERTed for created objects.
C18_FetchedArePersisted ==
    /\ \A i \in 1..Len(fetched) :
           /\ IdentityOf(fetched[i]) # None
           /\ IdentityOf(fetched[i]) = FromSql(rows[i][id_key_name])
    /\ \A r \in 1..Len(objs) :
           meta[r].fetched =>
               /\ meta[r].row_of = <<>>
               /\ IdentityOf(objs[r]) = meta[r].created_id
               /\ \A t \in threads : cur[t] = r => pc[t] = "update"
    /\ Len(rows) = InsertsOf(Len(objs))

\* C18's case: save() has returned on an object kept from get_all_objects()
\* and assigned to; the table holds the one row it had.
C18_Witness ==
    \E r \in 1..Len(objs) :
        /\ meta[r].fetched /\ meta[r].calls >= 1 /\ ~Saving(r) /\ ~meta[r].dirty
        /\ Len(rows) = 1 /\ RowEquals(rows[1], r)
        /\ \E o \in 1..Len(objs) : ~meta[o].fetched /\ ~RowEquals(rows[1], o)

\* An identity, once carried, stays.
IdentityStable ==
    \A r \in 1..Len(objs) :
        IdentityOf(objs[r]) \notin {Absent, None}
            => IdentityOf(objs'[r]) = IdentityOf(objs[r])

\* An UPDATE changes no row but the one with the object's identity, and
\* neither adds nor removes a row.
UpdateOnlyOwnRow ==
    \A t \in threads :
        UpdateExec(t) =>
            /\ Len(rows') = Len(rows)
            /\ \A i \in 1..Len(rows) :
                   rows'[i] # rows[i]
                       => rows[i][id_key_name] = Adapt(IdentityOf(objs[cur[t]]))

\* C19: once an object carries an identity value no step of save() removes
\* or changes it, and every UPDATE sent for it writes only the row of that
\* identity.
C19_IdentityStable == [][IdentityStable /\ UpdateOnlyOwnRow]_vars

\* C19's case: with two rows in the table, a save() on an object that
\* carried an identity has changed its row.
C19_Witness ==
    /\ Len(rows) = 2 /\ Idle
    /\ \E r \in 1..Len(objs) :
           /\ OwnIdentity(r) /\ meta[r].calls = 2 /\ ~meta[r].dirty
           /\ \E i \in 1..2 :
                  /\ rows[i][id_key_name] = Adapt(IdentityOf(objs[r]))
                  /\ RowEquals(rows[i], r)
                  /\ ~RowEquals(rows[3 - i], r)

(***************************************************************************)
(* Claims about the connection lock.                                       *)
(***************************************************************************)
\* At most one thread is between the acquire and the release of
\* execute_query, that thread owns the lock, and a thread outside
\* execute_query does not.
OneInBlock ==
    /\ Cardinality({t \in threads : pc[t] \in InBlock}) <= 1
    /\ \A t \in threads :
           /\ pc[t] \in InBlock => store.connection_lock = [owner |-> t, count |-> 1]
           /\ pc[t] \in {"idle", "with"} => store.connection_lock.owner # t

LockHeld == store.connection_lock.owner # 0

\* C16: at most one thread at a time is inside the execute/commit/fetch of a
\* statement, holding the lock throughout, and a held lock is always
\* released, whether the statement returns or raises.
C16_MutualExclusion == []OneInBlock /\ (LockHeld ~> ~LockHeld)

\* C16's case: a thread commits inside the block while the other waits for
\* the lock, after a refused statement left the block.
C16_Witness ==
    /\ raised = <<"execute_query", "OperationalError">>
    /\ \E t, u \in threads : pc[t] = "commit" /\ pc[u] = "with"

====
